---- MODULE Spec2Model ----
(***************************************************************************)
(* ML Experiments Tracker: the experiment repository (models.py), its     *)
(* validation layer and the callers that write to it (app.py, init_db.py). *)
(*                                                                         *)
(* Text is a sequence of one-character strings, so that trimming, parsing  *)
(* and pattern matching are computed character by character.  A Python     *)
(* value is a record [t, s, n, d]: t is the type tag, s the characters of  *)
(* a str, n/d the value of a number (d a power of ten).                    *)
(***************************************************************************)
EXTENDS Integers, Sequences, FiniteSets, TLC

VARIABLES
    experiments,   \* the experiments table: a set of rows
    autoinc,       \* sqlite_sequence of the table: the largest id ever given out
    users,         \* the users table: a set of rows
    session,       \* the client's session cookie: user_id, or None
    now,           \* CURRENT_TIMESTAMP, in whole seconds
    pc,            \* position of the caller whose call is in `call`
    call,          \* the call being made: operation and arguments
    ret,           \* what the call returned
    seen,          \* ids of the rows of the pages fetched so far, in order
    connections,   \* database connections opened and not closed
    history        \* what the caller of the store was told: the ids create_experiment
                   \* returned and the create_user calls that returned True, in order

vars == <<experiments, autoinc, users, session, now, pc, call, ret, seen,
          connections, history>>

\* before the caller has called anything; `order` lists concurrent requests in the
\* order in which they wrote
NoHistory == [ids |-> <<>>, users |-> <<>>, order |-> <<>>]

(***************************************************************************)
(* Bounds of the model.                                                    *)
(***************************************************************************)
MaxStrLen == 2     \* longest title / description handed to the validator
MaxAccLen == 3     \* longest accuracy string handed to the validator
MaxTextLen == 2    \* longest title, description and search term of the search cases
MaxFilterRows == 2 \* most rows of a table of the filter cases
MaxRows == 3       \* most rows of a table of the paging cases
MaxStamp == 2      \* latest created_at of the paging cases
MaxPerPage == 2    \* largest per_page asked for
MaxPage == 4       \* last page asked for
MaxIds == 2        \* most experiment ids given out in a run of the application
MaxClock == 1      \* last second of a run of the application
MaxOpen == 2       \* most connections left open at one time
MaxStored == 6     \* most rows in the table when init_db is run again
NumSamples == 1    \* sample experiments init_db generates (100 in the script)

(***************************************************************************)
(* Python values.                                                          *)
(***************************************************************************)
Absent == [t |-> "absent", s |-> <<>>, n |-> 0, d |-> 1]   \* key not in the map
None == [t |-> "none", s |-> <<>>, n |-> 0, d |-> 1]
PyStr(s) == [t |-> "str", s |-> s, n |-> 0, d |-> 1]
PyNum(n, d) == [t |-> "num", s |-> <<>>, n |-> n, d |-> d]
PyBool(b) == [t |-> "bool", s |-> <<>>, n |-> IF b THEN 1 ELSE 0, d |-> 1]
PyList == [t |-> "list", s |-> <<>>, n |-> 0, d |-> 1]     \* the empty list []
NaN == [t |-> "nan", s |-> <<>>, n |-> 0, d |-> 1]         \* float('nan')

\* dict.get(key, default): the value, or the default when the key is missing
Get(data, key, default) == IF data[key].t = "absent" THEN default ELSE data[key]

\* dict.get(key): None when the key is missing
GetOrNone(data, key) == Get(data, key, None)

\* Python truth value of a value
Truthy(v) ==
    CASE v.t = "str" -> v.s # <<>>
      [] v.t = "num" -> v.n # 0
      [] v.t = "bool" -> v.n = 1
      [] v.t = "nan" -> TRUE
      [] OTHER -> FALSE          \* None, [] and a missing key

\* str.strip(): leading and trailing blanks removed
RECURSIVE LStrip(_)
LStrip(s) == IF s # <<>> /\ Head(s) = " " THEN LStrip(Tail(s)) ELSE s

RECURSIVE RStrip(_)
RStrip(s) ==
    IF s # <<>> /\ s[Len(s)] = " " THEN RStrip(SubSeq(s, 1, Len(s) - 1)) ELSE s

Strip(s) == RStrip(LStrip(s))

(***************************************************************************)
(* float(x), for the characters the model feeds it: digits, sign, point,   *)
(* blank, the literal nan; any other character makes the parse fail.       *)
(***************************************************************************)
Digits == {"0", "1", "2", "3", "4", "5", "6", "7", "8", "9"}

DigitVal(c) ==
    CASE c = "0" -> 0 [] c = "1" -> 1 [] c = "2" -> 2 [] c = "3" -> 3
      [] c = "4" -> 4 [] c = "5" -> 5 [] c = "6" -> 6 [] c = "7" -> 7
      [] c = "8" -> 8 [] c = "9" -> 9

\* value of a digit string, and the power of ten of its length
RECURSIVE DigitsVal(_)
DigitsVal(s) ==
    IF s = <<>> THEN 0 ELSE DigitsVal(SubSeq(s, 1, Len(s) - 1)) * 10 + DigitVal(s[Len(s)])

RECURSIVE Pow10(_)
Pow10(k) == IF k = 0 THEN 1 ELSE 10 * Pow10(k - 1)

\* the unsigned part: digits [ . digits ] or . digits
ParseUnsigned(s) ==
    LET dots == {i \in 1..Len(s) : s[i] = "."}
        wellFormed == /\ \A i \in 1..Len(s) : s[i] \in Digits \cup {"."}
                      /\ Cardinality(dots) <= 1
                      /\ \E i \in 1..Len(s) : s[i] \in Digits
    IN  IF ~wellFormed THEN [ok |-> FALSE, v |-> None]
        ELSE IF dots = {} THEN [ok |-> TRUE, v |-> PyNum(DigitsVal(s), 1)]
        ELSE LET p == CHOOSE i \in dots : TRUE
                 ip == SubSeq(s, 1, p - 1)
                 fp == SubSeq(s, p + 1, Len(s))
             IN  [ok |-> TRUE,
                  v |-> PyNum(DigitsVal(ip) * Pow10(Len(fp)) + DigitsVal(fp), Pow10(Len(fp)))]

ParseFloat(s) ==
    LET b == Strip(s)
        signed == b # <<>> /\ Head(b) \in {"-", "+"}
        u == ParseUnsigned(IF signed THEN Tail(b) ELSE b)
    IN  IF b = <<"n", "a", "n">> THEN [ok |-> TRUE, v |-> NaN]
        ELSE IF ~u.ok THEN u
        ELSE IF signed /\ Head(b) = "-" THEN [ok |-> TRUE, v |-> PyNum(0 - u.v.n, u.v.d)]
        ELSE u

\* float(x): ok is FALSE where Python raises ValueError or TypeError
Float(x) ==
    CASE x.t = "str" -> ParseFloat(x.s)
      [] x.t = "num" -> [ok |-> TRUE, v |-> x]
      [] x.t = "bool" -> [ok |-> TRUE, v |-> PyNum(x.n, 1)]
      [] x.t = "nan" -> [ok |-> TRUE, v |-> x]
      [] OTHER -> [ok |-> FALSE, v |-> None]

\* the range check with its bounds excluded: 0 < a < 100
InRangeExclusive(a) == a.t = "num" /\ 0 < a.n /\ a.n < 100 * a.d

\* 0 <= a <= 100 on floats: false for nan
InRange(a) == a.t = "num" /\ 0 <= a.n /\ a.n <= 100 * a.d


(***************************************************************************)
(* The validation layer.                                                   *)
(***************************************************************************)
Range(f) == {f[i] : i \in DOMAIN f}

\* the names of the enumerations, as text
CNN == <<"C", "N", "N">>
RNN == <<"R", "N", "N">>
Transformer == <<"T", "r", "a", "n", "s", "f", "o", "r", "m", "e", "r">>
LSTM == <<"L", "S", "T", "M">>
BERT == <<"B", "E", "R", "T">>
Custom == <<"C", "u", "s", "t", "o", "m">>
Planning == <<"P", "l", "a", "n", "n", "i", "n", "g">>
Running == <<"R", "u", "n", "n", "i", "n", "g">>
Completed == <<"C", "o", "m", "p", "l", "e", "t", "e", "d">>
Failed == <<"F", "a", "i", "l", "e", "d">>

\* Experiment.get_model_types
get_model_types ==
    <<PyStr(CNN), PyStr(RNN), PyStr(Transformer), PyStr(LSTM), PyStr(BERT), PyStr(Custom)>>

\* Experiment.get_statuses
get_statuses ==
    <<PyStr(Planning), PyStr(Running), PyStr(Completed), PyStr(Failed)>>

Fields == {"title", "description", "model_type", "status", "accuracy", "is_public"}

\* the required-text check of title and description: not data.get(k, '').strip()
RequiredTextErrors(v, msg) == IF Strip(v.s) = <<>> THEN <<msg>> ELSE <<>>

\* the check of model_type and status against their enumerations
EnumErrors(v, allowed, required, invalid) ==
    IF ~Truthy(v) THEN <<required>>
    ELSE IF v \notin Range(allowed) THEN <<invalid>>
    ELSE <<>>

\* the accuracy check: None is skipped, float() failing is one error, the range another
AccuracyErrors(raw) ==
    IF raw.t = "none" THEN <<>>
    ELSE IF ~Float(raw).ok THEN <<"Accuracy must be a valid number">>
    ELSE IF ~InRange(Float(raw).v) THEN <<"Accuracy must be between 0 and 100">>
    ELSE <<>>

\* the cleaned accuracy without the conversion: the raw value as submitted
CleanAccuracyRaw(raw) == raw

\* the cleaned accuracy: the float where float() succeeded, else the raw value
CleanAccuracy(raw) == IF raw.t # "none" /\ Float(raw).ok THEN Float(raw).v ELSE raw

\* the cleaned is_public: bool(data.get('is_public'))
CleanIsPublic(data) == PyBool(Truthy(GetOrNone(data, "is_public")))

\* Experiment.validate_experiment_data.  raised: .strip() was called on a value that
\* is not a str (AttributeError), so nothing is returned.
validate_experiment_data(data) ==
    LET title == Get(data, "title", PyStr(<<>>))
        description == Get(data, "description", PyStr(<<>>))
        model_type == GetOrNone(data, "model_type")
        status == GetOrNone(data, "status")
        accuracy == GetOrNone(data, "accuracy")
    IN  IF title.t # "str" \/ description.t # "str"
        THEN [raised |-> TRUE, data |-> [k \in Fields |-> None], errors |-> <<>>]
        ELSE [raised |-> FALSE,
              data |-> [title |-> PyStr(Strip(title.s)),
                        description |-> PyStr(Strip(description.s)),
                        model_type |-> model_type,
                        status |-> status,
                        accuracy |-> CleanAccuracy(accuracy),
                        is_public |-> CleanIsPublic(data)],
              errors |-> RequiredTextErrors(title, "Title is required")
                         \o RequiredTextErrors(description, "Description is required")
                         \o EnumErrors(model_type, get_model_types,
                                       "Model type is required", "Invalid model type")
                         \o EnumErrors(status, get_statuses,
                                       "Status is required", "Invalid status")
                         \o AccuracyErrors(accuracy)]


(***************************************************************************)
(* Calls of the validator: the field maps handed to it.                    *)
(***************************************************************************)
StrUpTo(A, n) == UNION {[1..k -> A] : k \in 0..n}

TitleChars == {" ", "a"}
AccChars == {"0", "1", "-", ".", " "}
XGBoost == <<"X", "G", "B", "o", "o", "s", "t">>
Done == <<"D", "o", "n", "e">>

TextInputs ==
    {Absent, None, PyNum(5, 1)} \cup {PyStr(s) : s \in StrUpTo(TitleChars, MaxStrLen)}
ModelTypeInputs == {Absent, None, PyStr(<<>>), PyStr(CNN), PyStr(BERT), PyStr(XGBoost)}
StatusInputs == {Absent, PyStr(<<>>), PyStr(Planning), PyStr(Failed), PyStr(Done)}
AccuracyInputs ==
    {Absent, None, PyList, PyNum(0 - 1, 1), PyNum(0, 1), PyNum(855, 10), PyNum(100, 1),
     PyNum(1001, 10), PyStr(<<"n", "a", "n">>), PyStr(<<"x">>)}
    \cup {PyStr(s) : s \in StrUpTo(AccChars, MaxAccLen)}
IsPublicInputs ==
    {Absent, None, PyStr(<<>>), PyStr(<<"0">>), PyStr(<<"1">>), PyStr(<<"o", "n">>),
     PyStr(<<"f", "a", "l", "s", "e">>), PyBool(FALSE), PyBool(TRUE), PyNum(0, 1), PyNum(1, 1)}

FieldMap(ti, de, mt, st, ac, ip) ==
    [title |-> ti, description |-> de, model_type |-> mt, status |-> st,
     accuracy |-> ac, is_public |-> ip]

\* every combination of the four required fields, a few accuracies
StructuralInputs ==
    {FieldMap(ti, de, mt, st, ac, ip) :
        ti \in TextInputs, de \in TextInputs, mt \in ModelTypeInputs, st \in StatusInputs,
        ac \in {Absent, PyStr(<<"1", "0">>), PyStr(<<"1", "1", "0">>), PyStr(<<"x">>)},
        ip \in {Absent, PyStr(<<"1">>)}}

\* every accuracy, a few of the other fields
AccuracyFocusInputs ==
    {FieldMap(ti, PyStr(<<"a">>), mt, PyStr(Planning), ac, Absent) :
        ti \in {PyStr(<<"a">>), PyStr(<<>>)}, mt \in {PyStr(CNN), PyStr(<<>>)},
        ac \in AccuracyInputs}

\* every is_public, a few of the other fields
IsPublicFocusInputs ==
    {FieldMap(ti, PyStr(<<"a">>), PyStr(CNN), PyStr(Planning), ac, ip) :
        ti \in {PyStr(<<"a">>), PyStr(<<>>)}, ac \in {Absent, PyStr(<<"1">>)},
        ip \in IsPublicInputs}

ValidateInputs == StructuralInputs \cup AccuracyFocusInputs \cup IsPublicFocusInputs

NoRet == [op |-> "none"]

InitValidate ==
    /\ experiments = {}
    /\ autoinc = 0
    /\ users = {}
    /\ session = None
    /\ now = 0
    /\ seen = <<>>
    /\ pc = "start"
    /\ ret = NoRet
    /\ \E d \in ValidateInputs : call = [op |-> "validate", data |-> d]
    /\ connections = 0
    /\ history = NoHistory

\* one call of Experiment.validate_experiment_data
CallValidate ==
    /\ pc = "start"
    /\ call.op = "validate"
    /\ ret' = validate_experiment_data(call.data)
    /\ pc' = "done"
    /\ UNCHANGED <<experiments, autoinc, users, session, now, call, seen, connections, history>>

NextValidate == CallValidate

SpecValidate == InitValidate /\ [][NextValidate]_vars

Validated == pc = "done" /\ call.op = "validate"


(***************************************************************************)
(* What the validation contract calls a malformed field.                   *)
(***************************************************************************)
NonBlank(v) == v.t = "str" /\ \E i \in 1..Len(v.s) : v.s[i] # " "
InvalidText(v) == ~NonBlank(v)
InvalidEnum(v, allowed) == \A i \in DOMAIN allowed : allowed[i] # v
NoAccuracy(v) == v.t \in {"absent", "none"}
Parses(v) == Float(v).ok
Parsed(v) == Float(v).v
InvalidAccuracy(v) == ~NoAccuracy(v) /\ ~(Parses(v) /\ InRange(Parsed(v)))

InvalidFields(d) ==
    {k \in {"title", "description"} : InvalidText(d[k])}
    \cup {k \in {"model_type"} : InvalidEnum(d[k], get_model_types)}
    \cup {k \in {"status"} : InvalidEnum(d[k], get_statuses)}
    \cup {k \in {"accuracy"} : InvalidAccuracy(d[k])}

MessagesOf(k) ==
    CASE k = "title" -> {"Title is required"}
      [] k = "description" -> {"Description is required"}
      [] k = "model_type" -> {"Model type is required", "Invalid model type"}
      [] k = "status" -> {"Status is required", "Invalid status"}
      [] k = "accuracy" -> {"Accuracy must be a valid number",
                            "Accuracy must be between 0 and 100"}

\* the messages of ret.errors that belong to field k, in order
RECURSIVE Select(_, _)
Select(errs, S) ==
    IF errs = <<>> THEN <<>>
    ELSE (IF Head(errs) \in S THEN <<Head(errs)>> ELSE <<>>) \o Select(Tail(errs), S)

\* title and description are text or missing, as in a submitted form
TextTyped(d) == \A k \in {"title", "description"} : d[k].t \in {"str", "absent"}

\* C5: validate_experiment_data never raises: whatever the field map, it returns
\* data and errors, and every malformed field has an entry in errors.
C5_NeverRaises ==
    Validated =>
        /\ ~ret.raised
        /\ \A k \in InvalidFields(call.data) : Select(ret.errors, MessagesOf(k)) # <<>>

\* C6: a supplied accuracy that parses to a in [0,100] adds no accuracy error, one
\* that parses to a < 0 or a > 100 adds exactly the range message, one that does not
\* parse adds exactly the parse message, and the two never appear together.
C6_AccuracyMessages ==
    (Validated /\ TextTyped(call.data)) =>
        LET a == call.data.accuracy
            msgs == Select(ret.errors, MessagesOf("accuracy"))
        IN  /\ ~ret.raised
            /\ Cardinality(Range(msgs)) <= 1
            /\ ~NoAccuracy(a) =>
                /\ (Parses(a) /\ Parsed(a).t = "num"
                      /\ 0 <= Parsed(a).n /\ Parsed(a).n <= 100 * Parsed(a).d)
                   => msgs = <<>>
                /\ (Parses(a) /\ Parsed(a).t = "num"
                      /\ (Parsed(a).n < 0 \/ Parsed(a).n > 100 * Parsed(a).d))
                   => msgs = <<"Accuracy must be between 0 and 100">>
                /\ ~Parses(a) => msgs = <<"Accuracy must be a valid number">>

\* C6 witness: the upper bound 100 itself was validated and accepted, and so was
\* a value above it rejected in some other call; here the accepted bound.
C6_Witness ==
    /\ Validated
    /\ call.data.accuracy = PyStr(<<"1", "0", "0">>)
    /\ call.data.title = PyStr(<<"a">>)
    /\ call.data.model_type = PyStr(CNN)
    /\ ret.errors = <<>>
    /\ ret.data.accuracy = PyNum(100, 1)

\* C7: is_public becomes False for a missing or empty value, for 0, for the string
\* '0' and for false-like tokens, and True for every other truthy token.
FalseLike(v) ==
    \/ v.t \in {"absent", "none"}
    \/ v \in {PyStr(<<>>), PyStr(<<"0">>), PyStr(<<"f", "a", "l", "s", "e">>),
              PyNum(0, 1), PyBool(FALSE)}

C7_IsPublicCoercion ==
    (Validated /\ ~ret.raised) =>
        ret.data.is_public = PyBool(~FalseLike(call.data.is_public))

\* t is s without its leading and trailing blanks
IsTrimOf(t, s) ==
    /\ t = <<>> \/ (t[1] # " " /\ t[Len(t)] # " ")
    /\ \E i \in 1..Len(s) + 1 :
          /\ i + Len(t) - 1 <= Len(s)
          /\ t = SubSeq(s, i, i + Len(t) - 1)
          /\ \A j \in 1..Len(s) : (j < i \/ j > i + Len(t) - 1) => s[j] = " "

ValidInput(d) ==
    /\ NonBlank(d.title)
    /\ NonBlank(d.description)
    /\ ~InvalidEnum(d.model_type, get_model_types)
    /\ ~InvalidEnum(d.status, get_statuses)
    /\ ~InvalidAccuracy(d.accuracy)

\* C8: a valid field map gives no errors, and cleaned data with the title and the
\* description trimmed, model_type and status as they were, and an accuracy that
\* is a number or absent.
C8_ValidInputAccepted ==
    (Validated /\ ValidInput(call.data)) =>
        /\ ~ret.raised
        /\ ret.errors = <<>>
        /\ ret.data.title.t = "str" /\ IsTrimOf(ret.data.title.s, call.data.title.s)
        /\ ret.data.description.t = "str"
        /\ IsTrimOf(ret.data.description.s, call.data.description.s)
        /\ ret.data.model_type = call.data.model_type
        /\ ret.data.status = call.data.status
        /\ ret.data.accuracy.t \in {"num", "none"}

\* C8 witness: a valid map with blanks around the title and a numeric string as
\* accuracy was validated.
C8_Witness ==
    /\ Validated
    /\ ValidInput(call.data)
    /\ call.data.title = PyStr(<<" ", "a">>)
    /\ call.data.accuracy = PyStr(<<"1", "0">>)
    /\ ret.data.title = PyStr(<<"a">>)
    /\ ret.data.accuracy = PyNum(10, 1)

\* C9: validation is not fail-fast: errors holds one message for each invalid field
\* among title, description, model_type, status and accuracy, and no others.
C9_AllErrorsReported ==
    Validated =>
        /\ ~ret.raised
        /\ Len(ret.errors) = Cardinality(InvalidFields(call.data))
        /\ \A k \in {"title", "description", "model_type", "status", "accuracy"} :
              Len(Select(ret.errors, MessagesOf(k)))
                  = (IF k \in InvalidFields(call.data) THEN 1 ELSE 0)


(***************************************************************************)
(* The experiments table and the list query.                               *)
(***************************************************************************)
\* a Python value as sqlite3 binds it: a bool becomes the integer 0 or 1
ToSql(v) == IF v.t = "bool" THEN PyNum(v.n, 1) ELSE v

\* an INSERT that leaves the accuracy column out
NewRowWithoutAccuracy(id, data, ts) ==
    [id |-> id,
     title |-> ToSql(data.title),
     description |-> ToSql(data.description),
     model_type |-> ToSql(data.model_type),
     status |-> ToSql(data.status),
     accuracy |-> None,
     is_public |-> ToSql(Get(data, "is_public", PyBool(FALSE))),
     created_at |-> ts,
     updated_at |-> ts]

\* the row that INSERT INTO experiments (title, ..., is_public) stores at time ts:
\* created_at and updated_at take their default, CURRENT_TIMESTAMP
NewRow(id, data, ts) ==
    [id |-> id,
     title |-> ToSql(data.title),
     description |-> ToSql(data.description),
     model_type |-> ToSql(data.model_type),
     status |-> ToSql(data.status),
     accuracy |-> ToSql(GetOrNone(data, "accuracy")),
     is_public |-> ToSql(Get(data, "is_public", PyBool(FALSE))),
     created_at |-> ts,
     updated_at |-> ts]

UpperCase == <<"A", "B", "C", "D", "E", "F", "G", "H", "I", "J", "K", "L", "M",
               "N", "O", "P", "Q", "R", "S", "T", "U", "V", "W", "X", "Y", "Z">>
LowerCase == <<"a", "b", "c", "d", "e", "f", "g", "h", "i", "j", "k", "l", "m",
               "n", "o", "p", "q", "r", "s", "t", "u", "v", "w", "x", "y", "z">>

\* ASCII case folding, as SQLite's LIKE does it
Lower(c) ==
    IF \E i \in DOMAIN UpperCase : UpperCase[i] = c
    THEN LowerCase[CHOOSE i \in DOMAIN UpperCase : UpperCase[i] = c]
    ELSE c

\* txt LIKE pat in SQLite: % stands for any run of characters, _ for any one
\* character, letters compare without case; there is no ESCAPE clause
RECURSIVE Like(_, _)
Like(pat, txt) ==
    IF pat = <<>> THEN txt = <<>>
    ELSE IF Head(pat) = "%"
         THEN Like(Tail(pat), txt) \/ (txt # <<>> /\ Like(pat, Tail(txt)))
    ELSE /\ txt # <<>>
         /\ Head(pat) = "_" \/ Lower(Head(pat)) = Lower(Head(txt))
         /\ Like(Tail(pat), Tail(txt))

\* column LIKE ? with the parameter f'%{search}%'
ColumnLike(col, search) == col.t = "str" /\ Like(<<"%">> \o search.s \o <<"%">>, col.s)

\* if filters.get('status') / if filters.get('model_type')
TextFilterOn(filters, key) == Truthy(GetOrNone(filters, key))

\* the is_public filter tested by truth value, so that a False filter is dropped
IsPublicFilterOnTruthy(filters) == Truthy(GetOrNone(filters, "is_public"))

\* if filters.get('is_public') is not None
IsPublicFilterOn(filters) == GetOrNone(filters, "is_public").t # "none"

\* if filters: a dict with at least one key
FiltersGiven(filters) == \E k \in DOMAIN filters : filters[k].t # "absent"

\* the WHERE clause the query is built with
Where(row, filters, search) ==
    /\ FiltersGiven(filters) =>
          /\ TextFilterOn(filters, "status") => row.status = ToSql(filters.status)
          /\ TextFilterOn(filters, "model_type") => row.model_type = ToSql(filters.model_type)
          /\ IsPublicFilterOn(filters) => row.is_public = ToSql(filters.is_public)
    /\ Truthy(search) => ColumnLike(row.title, search) \/ ColumnLike(row.description, search)

SelectRows(rows, filters, search) == {r \in rows : Where(r, filters, search)}

\* ORDER BY created_at DESC: every order of the rows with created_at descending;
\* SQL leaves the order of rows with equal created_at undefined, and each
\* execution of the query may produce any of them
OrderByCreatedAtDesc(rows) ==
    {o \in [1..Cardinality(rows) -> rows] :
        /\ \A i, j \in DOMAIN o : i # j => o[i] # o[j]
        /\ \A i, j \in DOMAIN o : i < j => o[i].created_at >= o[j].created_at}

\* offset = (page - 1) * per_page
Offset(page, per_page) == (page - 1) * per_page

\* LIMIT ? OFFSET ? on an ordered result: a negative offset counts as 0, a
\* negative limit as no limit
LimitOffset(o, limit, offset) ==
    LET from == IF offset < 0 THEN 0 ELSE offset
        upto == IF limit < 0 \/ from + limit > Len(o) THEN Len(o) ELSE from + limit
    IN  SubSeq(o, from + 1, upto)

\* (total_count + per_page - 1) // per_page, for per_page > 0
TotalPages(total_count, per_page) == (total_count + per_page - 1) \div per_page

\* Experiment.get_experiments, with o the order the ORDER BY produced this time.
\* raised: ZeroDivisionError in the page count when per_page is 0.
get_experiments(rows, page, per_page, filters, search, o) ==
    LET total_count == Cardinality(SelectRows(rows, filters, search))
    IN  [raised |-> per_page = 0,
         experiments |-> LimitOffset(o, per_page, Offset(page, per_page)),
         total_count |-> total_count,
         page |-> page,
         per_page |-> per_page,
         total_pages |-> IF per_page > 0 THEN TotalPages(total_count, per_page) ELSE 0]


(***************************************************************************)
(* Calls of the list query: a table, a query, and the pages 1, 2, ... of   *)
(* that query fetched one after the other over the unchanged table.        *)
(***************************************************************************)
SearchChars == {"a", "A", "_"}
SearchTexts == StrUpTo(SearchChars, MaxTextLen) \ {<<>>}
SearchTerms == SearchTexts \cup {<<"%">>, <<"a", "%">>}

\* cleaned data as the validator returns it for a valid form
Cleaned(ti, de, mt, st, ip) ==
    FieldMap(PyStr(ti), PyStr(de), PyStr(mt), PyStr(st), None, PyBool(ip))

\* the table after the rows ds[1], ds[2], ... were created at the times ts[1], ts[2], ...
TableOf(ds, ts) == {NewRow(i, ds[i], ts[i]) : i \in DOMAIN ds}

NoFilters == [status |-> Absent, model_type |-> Absent, is_public |-> Absent]

Query(per_page, filters, search) ==
    [op |-> "list", page |-> 0, per_page |-> per_page, filters |-> filters, search |-> search]

\* one row with every title and description, every search term, no filter
SearchCases(texts) ==
    {[table |-> TableOf(<<Cleaned(ti, de, CNN, Completed, FALSE)>>, <<1>>),
      query |-> Query(1, NoFilters, se)] :
        ti \in texts, de \in texts,
        se \in {None} \cup {PyStr(x) : x \in SearchTerms}}

FilterRowData ==
    {Cleaned(<<"a">>, <<"b">>, mt, st, ip) :
        mt \in {CNN, RNN}, st \in {Completed, Running}, ip \in BOOLEAN}

FilterInputs ==
    {[status |-> st, model_type |-> mt, is_public |-> ip] :
        st \in {Absent, PyStr(<<>>), PyStr(Completed), PyStr(Running)},
        mt \in {Absent, PyStr(CNN), PyStr(RNN)},
        ip \in {Absent, None, PyBool(FALSE), PyBool(TRUE)}}

\* rows of every status, model type and visibility, every combination of filters
FilterCases(rows) ==
    {[table |-> TableOf(ds, [i \in DOMAIN ds |-> i]), query |-> Query(pp, fi, None)] :
        ds \in StrUpTo(FilterRowData, rows), pp \in 1..MaxPerPage,
        fi \in FilterInputs}

NonDecreasing(n) ==
    {ts \in [1..n -> 1..MaxStamp] : \A i, j \in 1..n : i < j => ts[i] <= ts[j]}

\* up to `rows` rows, several created in the same second, a status filter or
\* none, a search term or none
PageCases(rows) ==
    UNION {{[table |-> TableOf(ds, ts),
             query |-> Query(pp, [NoFilters EXCEPT !.status = st], se)] :
                ds \in [1..n -> {Cleaned(<<"a">>, <<"b">>, CNN, x, FALSE) :
                                    x \in {Completed, Running}}],
                ts \in NonDecreasing(n), pp \in 1..MaxPerPage,
                st \in {Absent, PyStr(Completed)}, se \in {None, PyStr(<<"a">>)}} :
           n \in 0..rows}

QueryCases(texts, filterRows, rows) ==
    SearchCases(texts) \cup FilterCases(filterRows) \cup PageCases(rows)

InitQuery ==
    \E c \in QueryCases(SearchTexts, MaxFilterRows, MaxRows) :
        /\ experiments = c.table
        /\ autoinc = Cardinality(c.table)
        /\ users = {}
        /\ session = None
        /\ now = MaxStamp
        /\ call = c.query
        /\ pc = "start"
        /\ ret = NoRet
        /\ seen = <<>>
        /\ connections = 0
        /\ history = NoHistory

\* the ids of a list of rows
Ids(items) == [i \in DOMAIN items |-> items[i].id]

\* one call of Experiment.get_experiments: the next page of the query
CallGetExperiments ==
    /\ pc = "start"
    /\ call.op = "list"
    /\ \E o \in OrderByCreatedAtDesc(SelectRows(experiments, call.filters, call.search)) :
          ret' = get_experiments(experiments, call.page + 1, call.per_page,
                                 call.filters, call.search, o)
    /\ call' = [call EXCEPT !.page = @ + 1]
    /\ seen' = seen \o Ids(ret'.experiments)
    /\ pc' = IF call.page + 1 >= MaxPage THEN "done" ELSE "start"
    /\ UNCHANGED <<experiments, autoinc, users, session, now, connections, history>>

NextQuery == CallGetExperiments

SpecQuery == InitQuery /\ [][NextQuery]_vars

\* a page of the query in `call` has been fetched and is in `ret`
Listed == call.op = "list" /\ call.page >= 1

\* the pages 1..total_pages have all been fetched
AllPagesListed == Listed /\ call.page >= ret.total_pages


(***************************************************************************)
(* What the list contract calls a matching row.                            *)
(***************************************************************************)
\* txt contains term as a substring, letters compared without case
ContainsFold(txt, term) ==
    \E i \in 0..(Len(txt) - Len(term)) :
        \A j \in 1..Len(term) : Lower(txt[i + j]) = Lower(term[j])

SearchSupplied(se) == se.t = "str" /\ se.s # <<>>
TextFilterSupplied(v) == v.t = "str" /\ v.s # <<>>
BoolFilterSupplied(v) == v.t = "bool"

\* the row equals every filter that is supplied
RowEquals(r, f) ==
    /\ TextFilterSupplied(f.status) => r.status.s = f.status.s
    /\ TextFilterSupplied(f.model_type) => r.model_type.s = f.model_type.s
    /\ BoolFilterSupplied(f.is_public) => (r.is_public.n # 0) = (f.is_public.n = 1)

RowContains(r, se) == ContainsFold(r.title.s, se.s) \/ ContainsFold(r.description.s, se.s)

Expected(rows, f, se) ==
    {r \in rows : RowEquals(r, f) /\ (SearchSupplied(se) => RowContains(r, se))}

IdSet(rows) == {r.id : r \in rows}

\* the least n with n * b >= a
CeilDiv(a, b) == CHOOSE n \in 0..a : n * b >= a /\ (n = 0 \/ (n - 1) * b < a)

Min(a, b) == IF a < b THEN a ELSE b

\* items are the rows at the positions first+1 .. first+Len(items) of some
\* newest-first arrangement of the rows S
IsSliceOfNewestFirst(items, S, first) ==
    \E o \in [1..Cardinality(S) -> S] :
        /\ \A r \in S : \E i \in DOMAIN o : o[i] = r
        /\ \A i \in DOMAIN o : i > 1 => o[i - 1].created_at >= o[i].created_at
        /\ \A k \in DOMAIN items : first + k <= Len(o) /\ items[k] = o[first + k]

\* C1: with no filter and a non-empty search term s, the matching rows are exactly
\* the rows whose title or description contains s, case-insensitively: total_count
\* counts them and the pages hold them and no other row.
C1_SearchIsSubstring ==
    (Listed /\ ~FiltersGiven(call.filters) /\ SearchSupplied(call.search)) =>
        LET want == Expected(experiments, NoFilters, call.search)
        IN  /\ ret.total_count = Cardinality(want)
            /\ \A k \in DOMAIN ret.experiments : ret.experiments[k] \in want
            /\ AllPagesListed => Range(seen) = IdSet(want)

\* C2: the rows matched are exactly the rows that equal every supplied filter;
\* an omitted filter constrains nothing, and is_public=False selects only
\* non-public rows.
C2_FiltersIntersect ==
    Listed =>
        /\ \A k \in DOMAIN ret.experiments : RowEquals(ret.experiments[k], call.filters)
        /\ ~SearchSupplied(call.search) =>
              ret.total_count = Cardinality({r \in experiments : RowEquals(r, call.filters)})

\* C2 witness: a table with a public and a non-public row was listed with
\* is_public=False and a status filter, and exactly the one private row came back.
C2_Witness ==
    /\ Listed
    /\ call.filters.is_public = PyBool(FALSE)
    /\ call.filters.status = PyStr(Completed)
    /\ call.filters.model_type = Absent
    /\ \E r \in experiments : r.is_public.n = 1 /\ r.status = PyStr(Completed)
    /\ \E r \in experiments : r.is_public.n = 0 /\ r.status = PyStr(Completed)
    /\ ret.total_count = 1
    /\ Len(ret.experiments) = 1
    /\ ret.experiments[1].is_public.n = 0

\* C3: for page >= 1 and per_page >= 1, total_count is the number of rows matching
\* the filters and the search, total_pages is ceil(total_count / per_page), items
\* are the matching rows at positions (page-1)*per_page+1 .. page*per_page of the
\* newest-first order, and beyond the last page items is empty.
C3_Pagination ==
    Listed =>
        LET want == Expected(experiments, call.filters, call.search)
            first == (call.page - 1) * call.per_page
            left == IF Cardinality(want) > first THEN Cardinality(want) - first ELSE 0
        IN  /\ ret.total_count = Cardinality(want)
            /\ ret.total_pages = CeilDiv(Cardinality(want), call.per_page)
            /\ Len(ret.experiments) = Min(call.per_page, left)
            /\ IsSliceOfNewestFirst(ret.experiments, want, first)
            /\ call.page > ret.total_pages => ret.experiments = <<>>

\* C4: rows with equal created_at come in one fixed order, so over an unchanged
\* table the pages 1..total_pages of a query are pairwise disjoint and together
\* hold every row the query selects exactly once.
C4_PagesPartition ==
    AllPagesListed =>
        /\ \A i, j \in DOMAIN seen : i # j => seen[i] # seen[j]
        /\ Range(seen) = IdSet(SelectRows(experiments, call.filters, call.search))


(***************************************************************************)
(* The credential store and the repository's write operations.             *)
(***************************************************************************)
\* hashlib.sha256(password.encode()).hexdigest(): a digest that tells passwords apart
Sha256(password) == <<"sha256">> \o password

\* User.get_user_by_username: the rows with that username (none or one)
get_user_by_username(username) == {u \in users : u.username = username}

\* an INSERT OR REPLACE in place of the INSERT: a taken username gets the new digest
CreateUserOrReplace(username, password) ==
    [ok |-> TRUE,
     users |-> {u \in users : u.username # username}
               \cup {[username |-> username, password_hash |-> Sha256(password)]},
     closed |-> TRUE]

\* User.create_user: the users table after the call; a second row with a taken
\* username violates UNIQUE and the table stays as it is
\* `closed` tells whether conn.close() was reached: the IntegrityError of the
\* INSERT leaves the try block before it
create_user(username, password) ==
    IF get_user_by_username(username) # {}
    THEN [ok |-> FALSE, users |-> users, closed |-> FALSE]
    ELSE [ok |-> TRUE,
          users |-> users \cup {[username |-> username, password_hash |-> Sha256(password)]},
          closed |-> TRUE]

\* the SELECT without its password_hash condition: any password of a known user
AuthenticateByName(username, password) == \E u \in users : u.username = username

\* User.authenticate
authenticate(username, password) ==
    \E u \in users : u.username = username /\ u.password_hash = Sha256(password)

\* the largest id of the rows, 0 for an empty table
MaxRowId(rows) == IF rows = {} THEN 0 ELSE CHOOSE n \in {r.id : r \in rows} : \A r \in rows : r.id <= n

\* an id column without AUTOINCREMENT: the new id is one more than the largest
\* id in the table
CreateWithoutAutoincrement(rows, seqno, data, ts) ==
    [id |-> MaxRowId(rows) + 1,
     rows |-> rows \cup {NewRow(MaxRowId(rows) + 1, data, ts)}]

\* Experiment.create_experiment at time ts: the new id and the table after it
create_experiment(rows, seqno, data, ts) ==
    [id |-> seqno + 1, rows |-> rows \cup {NewRow(seqno + 1, data, ts)}]

\* Experiment.get_experiment: the rows with that id (none or one)
get_experiment(rows, id) == {r \in rows : r.id = id}

\* an UPDATE that keeps the stored accuracy where the data has none
UpdateMerging(rows, id, data, ts) ==
    [ok |-> \E r \in rows : r.id = id,
     rows |-> {IF r.id = id
               THEN [NewRow(id, data, ts) EXCEPT
                        !.created_at = r.created_at,
                        !.accuracy = IF GetOrNone(data, "accuracy") = None
                                     THEN r.accuracy ELSE @]
               ELSE r : r \in rows}]

\* an INSERT OR REPLACE in place of the UPDATE: a missing id gets a new row
UpdateOrInsert(rows, id, data, ts) ==
    [ok |-> \E r \in rows : r.id = id,
     rows |-> {r \in rows : r.id # id} \cup {NewRow(id, data, ts)}]

\* Experiment.update_experiment at time ts: rows_affected > 0 and the table after it
update_experiment(rows, id, data, ts) ==
    [ok |-> get_experiment(rows, id) # {},
     rows |-> {IF r.id = id
               THEN [NewRow(id, data, ts) EXCEPT !.created_at = r.created_at]
               ELSE r : r \in rows}]

\* a delete that reports success whether or not a row was removed
DeleteReportingSuccess(rows, id) == [ok |-> TRUE, rows |-> {r \in rows : r.id # id}]

\* a DELETE with WHERE id <= ?
DeleteUpTo(rows, id) ==
    [ok |-> \E r \in rows : r.id <= id, rows |-> {r \in rows : r.id > id}]

\* Experiment.delete_experiment: rows_affected > 0 and the table after it
delete_experiment(rows, id) ==
    [ok |-> get_experiment(rows, id) # {}, rows |-> {r \in rows : r.id # id}]

(***************************************************************************)
(* init_db.py: the default user and the sample experiments.                *)
(***************************************************************************)
Admin == <<"a", "d", "m", "i", "n">>
Password123 == <<"p", "a", "s", "s", "w", "o", "r", "d", "1", "2", "3">>
Finance == <<"F", "i", "n", "a", "n", "c", "e">>
Classification == <<"C", "l", "a", "s", "s", "i", "f", "i", "c", "a", "t", "i", "o", "n">>

\* default per_page of get_experiments
DefaultPerPage == 5

\* the outcomes of random.choice kept: one domain, one task, a model type that is
\* in get_model_types and one that is only in the script's own list, two statuses
SampleDomains == {Finance}
SampleTasks == {Classification}
SampleModelTypes == {CNN, XGBoost}
SampleStatuses == {Completed, Running}
SampleAccuracies == {PyNum(995, 10)}

SampleChoices ==
    [domain : SampleDomains, task : SampleTasks, model : SampleModelTypes,
     status : SampleStatuses, accuracy : SampleAccuracies, is_public : BOOLEAN]

DigitChars == <<"0", "1", "2", "3", "4", "5", "6", "7", "8", "9">>

\* str(n) for n >= 0
RECURSIVE Decimal(_)
Decimal(n) ==
    IF n < 10 THEN <<DigitChars[n + 1]>>
    ELSE Decimal(n \div 10) \o <<DigitChars[(n % 10) + 1]>>

\* str.lower()
LowerText(s) == [i \in DOMAIN s |-> Lower(s[i])]

\* sample_experiments[i - 1] for the choices c
SampleExperiment(i, c) ==
    FieldMap(
        PyStr(c.domain \o <<" ">> \o c.task \o <<" ", "w", "i", "t", "h", " ">> \o c.model \o <<" ", "-", " ", "E", "x", "p", " ", "#">>
              \o Decimal(i)),
        PyStr(<<"A", " ", "s", "a", "m", "p", "l", "e", " ", "e", "x", "p", "e", "r", "i", "m", "e", "n", "t", " ", "f", "o", "r", " ">> \o LowerText(c.task) \o <<" ", "i", "n", " ", "t", "h", "e", " ">>
              \o LowerText(c.domain) \o <<" ", "d", "o", "m", "a", "i", "n", " ", "u", "s", "i", "n", "g", " ", "a", " ">> \o c.model
              \o <<" ", "m", "o", "d", "e", "l", ".", " ", "T", "h", "i", "s", " ", "i", "s", " ", "e", "x", "p", "e", "r", "i", "m", "e", "n", "t", " ", "n", "u", "m", "b", "e", "r", " ">> \o Decimal(i)
              \o <<" ", "i", "n", " ", "t", "h", "e", " ", "d", "a", "t", "a", "s", "e", "t", ".">>),
        PyStr(c.model),
        PyStr(c.status),
        IF c.status = Completed THEN c.accuracy ELSE None,
        PyBool(c.is_public))

\* the lists sample_experiments that the random choices can produce
SampleRuns ==
    {[i \in 1..NumSamples |-> SampleExperiment(i, c[i])] :
        c \in [1..NumSamples -> SampleChoices]}

\* the loop over sample_experiments: one create_experiment for each sample whose
\* title is not in existing_titles
RECURSIVE CreateMissing(_, _, _, _, _)
CreateMissing(rows, seqno, samples, existing_titles, ts) ==
    IF samples = <<>> THEN [rows |-> rows, autoinc |-> seqno]
    ELSE IF Head(samples).title \in existing_titles
         THEN CreateMissing(rows, seqno, Tail(samples), existing_titles, ts)
    ELSE LET made == create_experiment(rows, seqno, Head(samples), ts)
         IN  CreateMissing(made.rows, made.id, Tail(samples), existing_titles, ts)

(***************************************************************************)
(* The application: one client, its session, and the requests that write.  *)
(***************************************************************************)
Wrong == <<"w", "r", "o", "n", "g">>

UsernameInputs == {None, PyStr(Admin), PyStr(Wrong)}
PasswordInputs == {PyStr(<<>>), PyStr(Password123), PyStr(Wrong)}

\* request.form of the experiment form: every value is text, or the key is missing.
\* Two valid forms, and one form for each of a blank title, a model type outside
\* the enumeration and an accuracy out of range.
ExperimentForm(ti, mt, ac, ip) ==
    FieldMap(PyStr(ti), PyStr(<<"b">>), PyStr(mt), PyStr(Planning), ac, ip)

ExperimentForms ==
    {ExperimentForm(<<"a">>, CNN, Absent, Absent),
     ExperimentForm(<<" ", "a", "A">>, RNN, PyStr(<<"5", "0">>), PyStr(<<"1">>)),
     ExperimentForm(<<" ">>, CNN, Absent, Absent),
     ExperimentForm(<<"a">>, XGBoost, PyStr(<<"5", "0">>), PyStr(<<"1">>)),
     ExperimentForm(<<"a">>, CNN, PyStr(<<"1", "0", "1">>), Absent)}

Response(status, to, errors) == [status |-> status, to |-> to, errors |-> errors]

\* login_required: the redirect sent when the session has no user_id
ToLogin == Response(302, "login", <<>>)

\* a decorator that lets every request through
LoggedInAlways == TRUE

\* 'user_id' in session
LoggedIn == session # None

Init ==
    /\ experiments = {}
    /\ autoinc = 0
    /\ users = {}
    /\ session = None
    /\ now = 0
    /\ pc = "idle"
    /\ call = [op |-> "none"]
    /\ ret = NoRet
    /\ seen = <<>>
    /\ connections = 0
    /\ history = NoHistory

\* a second passes
Tick ==
    /\ now < MaxClock
    /\ now' = now + 1
    /\ UNCHANGED <<experiments, autoinc, users, session, pc, call, ret, seen, connections, history>>

\* init_db.py from the admin user to the creation loop, while the ids stay
\* within limit
InitDbWrites(limit) ==
    \E o \in OrderByCreatedAtDesc(SelectRows(experiments, NoFilters, None)) :
    \E samples \in SampleRuns :
        LET listed == get_experiments(experiments, 1, DefaultPerPage, NoFilters, None, o)
            existing_titles == {r.title : r \in Range(listed.experiments)}
            made == CreateMissing(experiments, autoinc, samples, existing_titles, now)
        IN  /\ made.autoinc <= limit
            /\ users' = IF get_user_by_username(Admin) = {}
                        THEN create_user(Admin, Password123).users
                        ELSE users
            /\ experiments' = made.rows
            /\ autoinc' = made.autoinc
            /\ call' = [op |-> "init_db"]
            /\ ret' = Response(0, "", <<>>)

\* python init_db.py
RunInitDb ==
    /\ InitDbWrites(MaxIds)
    /\ UNCHANGED <<session, now, pc, seen, connections, history>>

\* POST /login
Login ==
    \E username \in UsernameInputs, password \in PasswordInputs :
        /\ call' = [op |-> "login", username |-> username, password |-> password]
        /\ IF ~Truthy(username) \/ ~Truthy(password)
           THEN /\ ret' = Response(200, "", <<"Username and password are required.">>)
                /\ UNCHANGED session
           ELSE IF authenticate(username.s, password.s)
           THEN /\ session' = username
                /\ ret' = Response(302, "dashboard", <<>>)
           ELSE /\ ret' = Response(200, "",
                                   <<"Invalid username or password. Authentication failed.">>)
                /\ UNCHANGED session
        /\ UNCHANGED <<experiments, autoinc, users, now, pc, seen, connections, history>>

\* /logout, requested with POST or, as the test does, with GET
LogoutMethods == {"POST"}

Logout ==
    \E method \in LogoutMethods \cup {"GET"} :
        /\ call' = [op |-> "logout", method |-> method]
        /\ IF method \in LogoutMethods
           THEN session' = None /\ ret' = Response(302, "login", <<>>)
           ELSE UNCHANGED session /\ ret' = Response(405, "", <<>>)
        /\ UNCHANGED <<experiments, autoinc, users, now, pc, seen, connections, history>>

\* the methods the routes are registered with; another method is answered 405
\* by the router, before login_required and the handler run
FormMethods == {"GET", "POST"}
DeleteMethods == {"DELETE"}
MethodNotAllowed == Response(405, "", <<>>)

\* a handler that takes every validation for a clean one
HasErrorsNever(validation) == FALSE

\* if validation['errors']
HasErrors(validation) == validation.errors # <<>>

\* /experiment/new
NewExperiment ==
    \E method \in FormMethods, form \in ExperimentForms :
        LET validation == validate_experiment_data(form)
            made == create_experiment(experiments, autoinc, validation.data, now)
        IN  /\ call' = IF method = "POST"
                       THEN [op |-> "new_experiment", method |-> method, form |-> form]
                       ELSE [op |-> "new_experiment", method |-> method]
            /\ IF ~LoggedIn
               THEN ret' = ToLogin /\ UNCHANGED <<experiments, autoinc>>
               ELSE IF method # "POST"
               THEN ret' = Response(200, "", <<>>) /\ UNCHANGED <<experiments, autoinc>>
               ELSE IF validation.raised
               THEN ret' = Response(500, "", <<>>) /\ UNCHANGED <<experiments, autoinc>>
               ELSE IF HasErrors(validation)
               THEN ret' = Response(200, "", validation.errors)
                    /\ UNCHANGED <<experiments, autoinc>>
               ELSE /\ autoinc < MaxIds
                    /\ experiments' = made.rows
                    /\ autoinc' = made.id
                    /\ ret' = Response(302, "view_experiment", <<>>)
            /\ UNCHANGED <<users, session, now, pc, seen, connections, history>>

\* /experiment/<id>/edit
EditExperiment ==
    \E method \in FormMethods, id \in 1..MaxIds, form \in ExperimentForms :
        LET validation == validate_experiment_data(form)
            updated == update_experiment(experiments, id, validation.data, now)
        IN  /\ call' = IF method = "POST"
                       THEN [op |-> "edit_experiment", method |-> method, id |-> id,
                             form |-> form]
                       ELSE [op |-> "edit_experiment", method |-> method, id |-> id]
            /\ IF ~LoggedIn
               THEN ret' = ToLogin /\ UNCHANGED experiments
               ELSE IF get_experiment(experiments, id) = {}
               THEN ret' = Response(302, "dashboard", <<"Experiment not found.">>)
                    /\ UNCHANGED experiments
               ELSE IF method # "POST"
               THEN ret' = Response(200, "", <<>>) /\ UNCHANGED experiments
               ELSE IF validation.raised
               THEN ret' = Response(500, "", <<>>) /\ UNCHANGED experiments
               ELSE IF HasErrors(validation)
               THEN ret' = Response(200, "", validation.errors) /\ UNCHANGED experiments
               ELSE /\ experiments' = updated.rows
                    /\ ret' = IF updated.ok
                              THEN Response(302, "view_experiment", <<>>)
                              ELSE Response(200, "", <<"Failed to update experiment.">>)
            /\ UNCHANGED <<autoinc, users, session, now, pc, seen, connections, history>>

\* /experiment/<id>/delete, requested with DELETE or, as the tests do, with POST
DeleteExperiment ==
    \E method \in DeleteMethods \cup {"POST"}, id \in 1..MaxIds :
        LET deleted == delete_experiment(experiments, id)
        IN  /\ call' = [op |-> "delete_experiment", method |-> method, id |-> id]
            /\ IF method \notin DeleteMethods
               THEN ret' = MethodNotAllowed /\ UNCHANGED experiments
               ELSE IF ~LoggedIn
               THEN ret' = ToLogin /\ UNCHANGED experiments
               ELSE IF get_experiment(experiments, id) = {}
               THEN ret' = Response(404, "", <<"Experiment not found.">>)
                    /\ UNCHANGED experiments
               ELSE /\ experiments' = deleted.rows
                    /\ ret' = IF deleted.ok
                              THEN Response(200, "", <<>>)
                              ELSE Response(500, "", <<"Failed to delete experiment.">>)
            /\ UNCHANGED <<autoinc, users, session, now, pc, seen, connections, history>>

(***************************************************************************)
(* The routes that read.                                                   *)
(***************************************************************************)
\* request.args: every value is text, or the key is missing
NoArgs ==
    [page |-> Absent, per_page |-> Absent, search |-> Absent, status |-> Absent,
     model_type |-> Absent, is_public |-> Absent]

RouteArgs ==
    {NoArgs,
     [NoArgs EXCEPT !.is_public = PyStr(<<"0">>)],
     [NoArgs EXCEPT !.status = PyStr(Completed), !.page = PyStr(<<"1">>)],
     [NoArgs EXCEPT !.search = PyStr(<<" ", "F">>), !.per_page = PyStr(<<"x">>)],
     [NoArgs EXCEPT !.is_public = PyStr(<<"1">>), !.per_page = PyStr(<<"0">>)]}

\* int(s) for blanks, a sign and digits; ok is FALSE where Python raises ValueError
ParseInt(s) ==
    LET b == Strip(s)
        signed == b # <<>> /\ Head(b) \in {"-", "+"}
        u == IF signed THEN Tail(b) ELSE b
        ok == u # <<>> /\ \A i \in DOMAIN u : u[i] \in Digits
    IN  [ok |-> ok,
         v |-> IF ~ok THEN 0
               ELSE IF signed /\ Head(b) = "-" THEN 0 - DigitsVal(u) ELSE DigitsVal(u)]

\* request.args.get(key, default, type=int): the default when the key is missing
\* or its value is no integer
IntArg(v, default) ==
    IF v.t # "str" THEN default
    ELSE IF ParseInt(v.s).ok THEN ParseInt(v.s).v ELSE default

\* request.args.get('search', '').strip(), and None in place of ''
SearchArg(args) ==
    LET search == Strip(Get(args, "search", PyStr(<<>>)).s)
    IN  IF search = <<>> THEN None ELSE PyStr(search)

\* a text filter is taken when its argument is not empty
TextFilterArg(v) == IF Truthy(v) THEN v ELSE Absent

\* dashboard and filter_experiments_api: is_public '1' is True, '0' is False,
\* anything else is no filter
DashboardFilters(args) ==
    [status |-> TextFilterArg(args.status),
     model_type |-> TextFilterArg(args.model_type),
     is_public |-> IF args.is_public = PyStr(<<"1">>) THEN PyBool(TRUE)
                   ELSE IF args.is_public = PyStr(<<"0">>) THEN PyBool(FALSE)
                   ELSE Absent]

\* api_experiments: is_public, when given, is converted with bool()
ApiFilters(args) ==
    [status |-> TextFilterArg(args.status),
     model_type |-> TextFilterArg(args.model_type),
     is_public |-> IF args.is_public.t = "absent" THEN Absent
                   ELSE PyBool(Truthy(args.is_public))]

\* the results get_experiments can return for the request
ListExperiments(args, filters) ==
    {get_experiments(experiments, IntArg(args.page, 1), IntArg(args.per_page, DefaultPerPage),
                     filters, SearchArg(args), o) :
        o \in OrderByCreatedAtDesc(SelectRows(experiments, filters, SearchArg(args)))}

\* a page or a JSON document made from body
Ok(body) == [status |-> 200, to |-> "", errors |-> <<>>, body |-> body]

\* the responses a list route can give a logged-in client
ListResponses(args, filters) ==
    {IF result.raised THEN Response(500, "", <<>>) ELSE Ok(result) :
        result \in ListExperiments(args, filters)}

\* GET /dashboard
Dashboard ==
    \E args \in RouteArgs :
        /\ call' = [op |-> "dashboard", method |-> "GET", args |-> args]
        /\ IF ~LoggedIn THEN ret' = ToLogin
           ELSE ret' \in ListResponses(args, DashboardFilters(args))
        /\ UNCHANGED <<experiments, autoinc, users, session, now, pc, seen,
                       connections, history>>

\* GET /api/filter_experiments
FilterExperimentsApi ==
    \E args \in RouteArgs :
        /\ call' = [op |-> "filter_experiments_api", method |-> "GET", args |-> args]
        /\ IF ~LoggedIn THEN ret' = ToLogin
           ELSE ret' \in ListResponses(args, DashboardFilters(args))
        /\ UNCHANGED <<experiments, autoinc, users, session, now, pc, seen,
                       connections, history>>

\* GET /api/experiments
ApiExperiments ==
    \E args \in RouteArgs :
        /\ call' = [op |-> "api_experiments", method |-> "GET", args |-> args]
        /\ IF ~LoggedIn THEN ret' = ToLogin
           ELSE ret' \in ListResponses(args, ApiFilters(args))
        /\ UNCHANGED <<experiments, autoinc, users, session, now, pc, seen,
                       connections, history>>

\* GET /experiment/<id>
ViewExperiment ==
    \E id \in 1..MaxIds :
        /\ call' = [op |-> "view_experiment", method |-> "GET", id |-> id]
        /\ ret' = IF ~LoggedIn THEN ToLogin
                  ELSE IF get_experiment(experiments, id) = {}
                  THEN Response(302, "dashboard", <<"Experiment not found.">>)
                  ELSE Ok(get_experiment(experiments, id))
        /\ UNCHANGED <<experiments, autoinc, users, session, now, pc, seen,
                       connections, history>>

\* GET /analytics
Analytics ==
    /\ call' = [op |-> "analytics", method |-> "GET"]
    /\ ret' = IF ~LoggedIn THEN ToLogin ELSE Response(200, "", <<>>)
    /\ UNCHANGED <<experiments, autoinc, users, session, now, pc, seen,
                   connections, history>>

Next ==
    \/ Tick
    \/ RunInitDb
    \/ Login
    \/ Logout
    \/ NewExperiment
    \/ EditExperiment
    \/ DeleteExperiment

Spec == Init /\ [][Next]_vars

\* the requests of one client within one second: every route that asks for a
\* login, the login and the logout, over the database init_db.py fills
NextRoutes ==
    \/ RunInitDb
    \/ Login
    \/ Logout
    \/ Dashboard
    \/ FilterExperimentsApi
    \/ ApiExperiments
    \/ NewExperiment
    \/ ViewExperiment
    \/ EditExperiment
    \/ DeleteExperiment
    \/ Analytics

SpecRoutes == Init /\ [][NextRoutes]_vars

\* C10: through the new and edit handlers and the init_db script, every stored
\* experiment has a model_type and a status of the enumerations and an accuracy
\* that is absent or within [0,100].
C10_StoredRowsValid ==
    \A r \in experiments :
        /\ \E i \in DOMAIN get_model_types : get_model_types[i] = r.model_type
        /\ \E i \in DOMAIN get_statuses : get_statuses[i] = r.status
        /\ r.accuracy = None \/ (r.accuracy.t = "num" /\ 0 <= r.accuracy.n
                                   /\ r.accuracy.n <= 100 * r.accuracy.d)

\* the test client with follow_redirects=True, for the redirect the claims are
\* about: a redirect to login ends at GET /login, which renders login.html with
\* status 200; any other response is final
FollowToLogin(r) ==
    IF r.status = 302 /\ r.to = "login"
    THEN [status |-> 200, template |-> "login.html"]
    ELSE [status |-> r.status, template |-> ""]

\* the routes decorated with login_required
ProtectedRoutes ==
    {"dashboard", "filter_experiments_api", "api_experiments", "new_experiment",
     "view_experiment", "edit_experiment", "delete_experiment", "analytics"}

\* the request c was made with a method its route is registered with
RouteAccepts(c) ==
    CASE c.op = "delete_experiment" -> c.method \in DeleteMethods
      [] c.op \in {"new_experiment", "edit_experiment"} -> c.method \in FormMethods
      [] c.op = "logout" -> c.method \in LogoutMethods
      [] OTHER -> TRUE

\* C13: a request without user_id in its session to a route that asks for a login
\* is answered with the redirect to login, and the experiment table is as before.
C13_LoginRequired ==
    [][(session = None /\ call'.op \in ProtectedRoutes) =>
            /\ experiments' = experiments
            /\ autoinc' = autoinc
            /\ RouteAccepts(call') => ret' = ToLogin]_vars

\* a client that is not logged in posted the new-experiment form to a filled
\* database and was sent to login
C13_Witness ==
    /\ session = None
    /\ call.op = "new_experiment"
    /\ call.method = "POST"
    /\ validate_experiment_data(call.form).errors = <<>>
    /\ experiments # {}
    /\ ret = ToLogin

NonEmptyText(v) == v.t = "str" /\ v.s # <<>>

\* the users table holds username with the digest of password
Stored(username, password) ==
    [username |-> username, password_hash |-> Sha256(password)] \in users

\* C14: POST /login sets user_id only when both fields are non-empty and the
\* credentials are the stored ones.  An empty field gives the login page with
\* status 200 and 'Username and password are required'; an unknown username or a
\* wrong password gives it with 'Invalid username or password'; in both cases
\* the session is left as it was.
C14_LoginOutcome ==
    [][call'.op = "login" =>
        IF ~NonEmptyText(call'.username) \/ ~NonEmptyText(call'.password)
        THEN /\ session' = session
             /\ ret' = Response(200, "", <<"Username and password are required.">>)
        ELSE IF Stored(call'.username.s, call'.password.s)
        THEN /\ session' = call'.username
             /\ ret' = Response(302, "dashboard", <<>>)
        ELSE /\ session' = session
             /\ ret' = Response(200, "",
                                <<"Invalid username or password. Authentication failed.">>)]_vars

\* the wrong password for the stored user admin was refused
C14_Witness ==
    /\ call.op = "login"
    /\ call.username = PyStr(Admin)
    /\ call.password = PyStr(Wrong)
    /\ get_user_by_username(Admin) # {}
    /\ session = None
    /\ ret.status = 200

\* C15: GET /logout by a logged-in client, redirects followed, ends at the
\* sign-in page with status 200 and a session without user_id; from then on the
\* routes that ask for a login redirect to login.
C15_LogoutByGet ==
    [][/\ (call'.op = "logout" /\ call'.method = "GET" /\ session # None) =>
            /\ session' = None
            /\ FollowToLogin(ret') = [status |-> 200, template |-> "login.html"]
       /\ (session = None /\ call'.op \in ProtectedRoutes /\ RouteAccepts(call')) =>
            ret' = ToLogin]_vars

(***************************************************************************)
(* The credential store, called directly.                                  *)
(***************************************************************************)
StoreUsernames == {Admin, Wrong}
StorePasswords == {Password123, Wrong}

InitStore ==
    /\ experiments = {}
    /\ autoinc = 0
    /\ users = {}
    /\ session = None
    /\ now = 0
    /\ pc = "idle"
    /\ call = [op |-> "none"]
    /\ ret = NoRet
    /\ seen = <<>>
    /\ connections = 0
    /\ history = NoHistory

\* User.create_user(username, password).  When the INSERT raises, the function
\* returns without conn.close(): the connection is closed by the finalizer of the
\* unreferenced object, at the return or at a later collection.
CallCreateUser ==
    \E username \in StoreUsernames, password \in StorePasswords :
        LET made == create_user(username, password)
        IN  /\ call' = [op |-> "create_user", username |-> username, password |-> password]
            /\ ret' = [op |-> "create_user", ok |-> made.ok]
            /\ users' = made.users
            /\ IF made.closed
               THEN UNCHANGED connections
               ELSE \E finalized \in BOOLEAN :
                        IF finalized THEN UNCHANGED connections
                        ELSE connections < MaxOpen /\ connections' = connections + 1
            /\ history' = IF made.ok
                          THEN [history EXCEPT !.users = Append(@, <<username, password>>)]
                          ELSE history
            /\ UNCHANGED <<experiments, autoinc, session, now, pc, seen>>

\* User.authenticate(username, password)
CallAuthenticate ==
    \E username \in StoreUsernames, password \in StorePasswords :
        /\ call' = [op |-> "authenticate", username |-> username, password |-> password]
        /\ ret' = [op |-> "authenticate", ok |-> authenticate(username, password)]
        /\ UNCHANGED <<experiments, autoinc, users, session, now, pc, seen,
                       connections, history>>

\* User.get_user_by_username(username)
CallGetUserByUsername ==
    \E username \in StoreUsernames :
        /\ call' = [op |-> "get_user_by_username", username |-> username]
        /\ ret' = [op |-> "get_user_by_username", rows |-> get_user_by_username(username)]
        /\ UNCHANGED <<experiments, autoinc, users, session, now, pc, seen,
                       connections, history>>

\* the garbage collector finalizes a connection object nothing refers to
Finalize ==
    /\ connections > 0
    /\ connections' = connections - 1
    /\ UNCHANGED <<experiments, autoinc, users, session, now, pc, call, ret, seen, history>>

NextUsers ==
    \/ CallCreateUser
    \/ CallAuthenticate
    \/ CallGetUserByUsername
    \/ Finalize

SpecUsers == InitStore /\ [][NextUsers]_vars

\* C11: every operation of the store closes the connection it opened before it
\* returns, also when it fails: between calls no connection is open.
C11_ConnectionsReleased == connections = 0

\* the passwords of the create_user calls for u that returned True, in order
Creations(u) ==
    LET ForUser(c) == c[1] = u
        made == SelectSeq(history.users, ForUser)
    IN  [i \in DOMAIN made |-> made[i][2]]

\* p is the password of the first create_user(u, ...) that returned True
FirstCreatedWith(u, p) == Creations(u) # <<>> /\ Head(Creations(u)) = p

\* C12: authenticate(u, p) is true exactly when the first successful create_user
\* for u was made with p; a create_user for a taken username returns False and
\* leaves that user's credentials as they were, and a username that was never
\* created does not authenticate.
C12_FirstPasswordAuthenticates ==
    /\ \A u \in StoreUsernames, p \in StorePasswords :
            authenticate(u, p) <=> FirstCreatedWith(u, p)
    /\ call.op = "authenticate" =>
            (ret.ok <=> FirstCreatedWith(call.username, call.password))
    /\ call.op = "create_user" =>
            IF ret.ok
            THEN /\ Creations(call.username) = <<call.password>>
                 /\ history.users[Len(history.users)] = <<call.username, call.password>>
            ELSE Creations(call.username) # <<>>
    /\ \A u \in StoreUsernames : Len(Creations(u)) <= 1

\* a create_user with another password was refused for a user who still
\* authenticates with the first password
C12_Witness ==
    /\ call.op = "create_user"
    /\ ~ret.ok
    /\ ~FirstCreatedWith(call.username, call.password)
    /\ \E p \in StorePasswords : FirstCreatedWith(call.username, p) /\ authenticate(call.username, p)

(***************************************************************************)
(* The experiment repository, called directly.                             *)
(***************************************************************************)
\* data maps handed to the repository: the cleaned data of the valid forms, and
\* a map without the keys accuracy and is_public
RepositoryData ==
    {validate_experiment_data(form).data :
        form \in {f \in ExperimentForms : validate_experiment_data(f).errors = <<>>}}
    \cup {FieldMap(PyStr(<<"c">>), PyStr(<<"d">>), PyStr(LSTM), PyStr(Failed), Absent, Absent)}

\* Experiment.create_experiment(data)
CallCreateExperiment ==
    \E data \in RepositoryData :
        LET made == create_experiment(experiments, autoinc, data, now)
        IN  /\ autoinc < MaxIds
            /\ call' = [op |-> "create_experiment", data |-> data]
            /\ ret' = [op |-> "create_experiment", id |-> made.id]
            /\ experiments' = made.rows
            /\ autoinc' = made.id
            /\ history' = [history EXCEPT !.ids = Append(@, made.id)]
            /\ UNCHANGED <<users, session, now, pc, seen, connections>>

\* Experiment.get_experiment(id)
CallGetExperiment ==
    \E id \in 1..MaxIds :
        /\ call' = [op |-> "get_experiment", id |-> id]
        /\ ret' = [op |-> "get_experiment", rows |-> get_experiment(experiments, id)]
        /\ UNCHANGED <<experiments, autoinc, users, session, now, pc, seen,
                       connections, history>>

\* Experiment.update_experiment(id, data)
CallUpdateExperiment ==
    \E id \in 1..MaxIds, data \in RepositoryData :
        LET updated == update_experiment(experiments, id, data, now)
        IN  /\ call' = [op |-> "update_experiment", id |-> id, data |-> data]
            /\ ret' = [op |-> "update_experiment", ok |-> updated.ok]
            /\ experiments' = updated.rows
            /\ UNCHANGED <<autoinc, users, session, now, pc, seen, connections, history>>

\* Experiment.delete_experiment(id)
CallDeleteExperiment ==
    \E id \in 1..MaxIds :
        LET deleted == delete_experiment(experiments, id)
        IN  /\ call' = [op |-> "delete_experiment", id |-> id]
            /\ ret' = [op |-> "delete_experiment", ok |-> deleted.ok]
            /\ experiments' = deleted.rows
            /\ UNCHANGED <<autoinc, users, session, now, pc, seen, connections, history>>

NextRepository ==
    \/ Tick
    \/ CallCreateExperiment
    \/ CallGetExperiment
    \/ CallUpdateExperiment
    \/ CallDeleteExperiment

SpecRepository == InitStore /\ [][NextRepository]_vars

\* this step is a call of the operation op (the clock does not move within a call)
Calls(op) == call'.op = op /\ now' = now

\* the row with the given id, where there is one
RowOf(rows, id) == CHOOSE r \in rows : r.id = id

\* Python's ==: True and False equal the numbers 1 and 0
PyEq(a, b) ==
    IF a.t \in {"num", "bool"} /\ b.t \in {"num", "bool"}
    THEN a.n * b.d = b.n * a.d
    ELSE a = b

\* the row r holds the six fields of data: a missing accuracy is None, a missing
\* is_public is False
HoldsData(r, data) ==
    /\ PyEq(r.title, data.title)
    /\ PyEq(r.description, data.description)
    /\ PyEq(r.model_type, data.model_type)
    /\ PyEq(r.status, data.status)
    /\ PyEq(r.accuracy, IF data.accuracy.t = "absent" THEN None ELSE data.accuracy)
    /\ PyEq(r.is_public, IF data.is_public.t = "absent" THEN PyBool(FALSE) ELSE data.is_public)

\* C16: update_experiment on an id without a row returns False and changes
\* nothing: the rows, their updated_at included, and the ids are as before.
C16_UpdateMissing ==
    [][(Calls("update_experiment") /\ get_experiment(experiments, call'.id) = {}) =>
            /\ ret'.ok = FALSE
            /\ experiments' = experiments
            /\ autoinc' = autoinc]_vars

\* an update of an id without a row was refused while other rows exist
C16_Witness ==
    /\ call.op = "update_experiment"
    /\ ~ret.ok
    /\ get_experiment(experiments, call.id) = {}
    /\ experiments # {}

\* C17: update_experiment on an id with a row returns True, overwrites the six
\* fields with the data, moves updated_at to a later value, and leaves id,
\* created_at and every other row as they were.
C17_UpdateExisting ==
    [][(Calls("update_experiment") /\ get_experiment(experiments, call'.id) # {}) =>
            LET before == RowOf(experiments, call'.id)
                after == RowOf(experiments', call'.id)
            IN  /\ ret'.ok = TRUE
                /\ get_experiment(experiments', call'.id) = {after}
                /\ HoldsData(after, call'.data)
                /\ after.updated_at > before.updated_at
                /\ after.id = before.id
                /\ after.created_at = before.created_at
                /\ experiments' \ {after} = experiments \ {before}]_vars

\* C18: delete_experiment(id) returns True exactly when a row with the id
\* existed and removes that row alone; from then on get_experiment(id) finds
\* nothing.
C18_DeleteForGood ==
    /\ [][Calls("delete_experiment") =>
            /\ ret'.ok <=> get_experiment(experiments, call'.id) # {}
            /\ experiments' = experiments \ get_experiment(experiments, call'.id)
            /\ get_experiment(experiments', call'.id) = {}]_vars
    /\ \A id \in 1..MaxIds :
            [](call.op = "delete_experiment" /\ call.id = id /\ ret.ok
                    => [](get_experiment(experiments, id) = {}))

\* a row was deleted and another row is still there
C18_Witness ==
    /\ call.op = "delete_experiment"
    /\ ret.ok
    /\ experiments # {}
    /\ get_experiment(experiments, call.id) = {}

\* C19: the ids create_experiment returned are pairwise different, also after
\* the row with the highest id was deleted.
C19_IdsNeverReused ==
    /\ \A i, j \in DOMAIN history.ids : i # j => history.ids[i] # history.ids[j]
    /\ call.op = "create_experiment" =>
            history.ids # <<>> /\ ret.id = history.ids[Len(history.ids)]

\* a create_experiment that followed the deletion of the only row, the one with
\* the highest id
C19_Witness ==
    /\ call.op = "create_experiment"
    /\ Len(history.ids) = 2
    /\ get_experiment(experiments, history.ids[1]) = {}
    /\ get_experiment(experiments, ret.id) # {}

\* C20: get_experiment of the id create_experiment returned is a record with the
\* six fields of the data (a missing accuracy absent, a missing is_public
\* false), that id, and created_at and updated_at both the time of the call.
C20_CreateThenGet ==
    [][Calls("create_experiment") =>
            \E r \in experiments' :
                /\ get_experiment(experiments', ret'.id) = {r}
                /\ HoldsData(r, call'.data)
                /\ r.id = ret'.id
                /\ r.created_at = now
                /\ r.updated_at = r.created_at]_vars

\* a map without accuracy and is_public was stored, and one with both
C20_Witness ==
    /\ call.op = "create_experiment"
    /\ call.data.accuracy.t = "absent"
    /\ call.data.is_public.t = "absent"
    /\ get_experiment(experiments, ret.id) # {}
    /\ \E r \in experiments : r.accuracy.t = "num" /\ r.is_public = PyNum(1, 1)

(***************************************************************************)
(* The handlers and the validator.                                         *)
(***************************************************************************)
\* this step is a POST of the form to the route op by a logged-in client
Posts(op) == call'.op = op /\ call'.method = "POST" /\ session # None

\* C21: when the validator reports an error, POST /experiment/new inserts no row
\* and POST /experiment/<id>/edit leaves the row as it was, and the response has
\* status 200 and carries every error message.
C21_NoWriteOnErrors ==
    [][/\ (Posts("new_experiment")
            /\ validate_experiment_data(call'.form).errors # <<>>) =>
                /\ experiments' = experiments
                /\ autoinc' = autoinc
                /\ ret' = Response(200, "", validate_experiment_data(call'.form).errors)
       /\ (Posts("edit_experiment") /\ get_experiment(experiments, call'.id) # {}
            /\ validate_experiment_data(call'.form).errors # <<>>) =>
                /\ experiments' = experiments
                /\ ret' = Response(200, "", validate_experiment_data(call'.form).errors)]_vars

\* a form with a model type outside the enumeration was posted for an existing
\* row and answered with the error
C21_Witness ==
    /\ call.op = "edit_experiment"
    /\ call.method = "POST"
    /\ session # None
    /\ get_experiment(experiments, call.id) # {}
    /\ ret = Response(200, "", <<"Invalid model type">>)

\* the three routes that list experiments
ListRoutes == {"dashboard", "filter_experiments_api", "api_experiments"}

\* a list route has answered a logged-in client
ListAnswered == call.op \in ListRoutes /\ session # None

\* C22: the list routes call get_experiments with per_page >= 1 only, so the page
\* count never divides by zero and no list request ends in an unhandled error.
C22_PerPageAtLeastOne ==
    ListAnswered =>
        /\ IntArg(call.args.per_page, DefaultPerPage) >= 1
        /\ ret.status # 500

\* the rows of a list response
Shown(r) == {r.body.experiments[i] : i \in DOMAIN r.body.experiments}

\* C24: the three list routes pass the same status, model_type and is_public
\* filters for the same query string: with is_public=0 each lists non-public
\* experiments only, with is_public=1 public ones only.
C24_SameFilters ==
    ListAnswered =>
        /\ ApiFilters(call.args) = DashboardFilters(call.args)
        /\ ret.status = 200 =>
            /\ call.args.is_public = PyStr(<<"0">>) =>
                    \A r \in Shown(ret) : r.is_public = PyNum(0, 1)
            /\ call.args.is_public = PyStr(<<"1">>) =>
                    \A r \in Shown(ret) : r.is_public = PyNum(1, 1)

\* C25: an accuracy given as the empty string counts as no accuracy: with the
\* other fields valid the validator returns no errors and a cleaned accuracy of
\* None.
C25_BlankAccuracyIsAbsent ==
    (/\ Validated
     /\ call.data.accuracy = PyStr(<<>>)
     /\ ValidInput([call.data EXCEPT !.accuracy = Absent])) =>
        /\ ~ret.raised
        /\ ret.errors = <<>>
        /\ ret.data.accuracy = None

(***************************************************************************)
(* init_db.py run on a database that is already filled.                    *)
(***************************************************************************)
\* the table after an earlier run of init_db.py and k experiments in all, one
\* created each second: row j is the sample of that run (none for j = 0), the
\* others were entered through the form
StoredTable(k, j, samples) ==
    {NewRow(i, IF i = j THEN samples[1]
               ELSE validate_experiment_data(ExperimentForm(<<"a">>, CNN, Absent, Absent)).data,
            i) : i \in 1..k}

InitStored ==
    \E k \in 0..MaxStored, withAdmin \in BOOLEAN :
    \E j \in 0..k, samples \in SampleRuns :
        /\ experiments = StoredTable(k, j, samples)
        /\ autoinc = k
        /\ users = IF withAdmin
                   THEN {[username |-> Admin, password_hash |-> Sha256(Password123)]}
                   ELSE {}
        /\ session = None
        /\ now = MaxStored + 1
        /\ pc = "start"
        /\ call = [op |-> "none"]
        /\ ret = NoRet
        /\ seen = <<>>
        /\ connections = 0
        /\ history = NoHistory

\* python init_db.py, once
RunInitDbAgain ==
    /\ pc = "start"
    /\ InitDbWrites(MaxStored + NumSamples)
    /\ pc' = "done"
    /\ UNCHANGED <<session, now, seen, connections, history>>

NextInitDb == RunInitDbAgain

SpecInitDb == InitStored /\ [][NextInitDb]_vars

\* C26: init_db.py creates a sample only when no row of the table has its title,
\* however many rows there are, and creates the admin user only when there is
\* none.
C26_NoDuplicateTitles ==
    [][call'.op = "init_db" =>
        /\ \A r \in experiments' \ experiments : \A q \in experiments : q.title # r.title
        /\ get_user_by_username(Admin) # {} => users' = users]_vars

(***************************************************************************)
(* Two requests of logged-in clients served at the same time: each is an   *)
(* edit or a delete, and its repository calls interleave with the other's. *)
(* call[p] holds the request p and ret[p] its response.                    *)
(***************************************************************************)
Requests == {1, 2}

\* the table with the rows 1..m, entered through the form in second 0
EnteredTable(m) ==
    {NewRow(i, validate_experiment_data(ExperimentForm(<<"a">>, CNN, Absent, Absent)).data, 0) :
        i \in 1..m}

RequestInputs ==
    {[op |-> "delete_experiment", method |-> "DELETE", id |-> id] : id \in 1..MaxIds}
    \cup {[op |-> "edit_experiment", method |-> "POST", id |-> id, form |-> form] :
            id \in 1..MaxIds, form \in ExperimentForms}

InitConcurrent ==
    \E m \in 1..MaxIds, requests \in [Requests -> RequestInputs] :
        /\ experiments = EnteredTable(m)
        /\ autoinc = m
        /\ users = {[username |-> Admin, password_hash |-> Sha256(Password123)]}
        /\ session = PyStr(Admin)
        /\ now = 1
        /\ pc = [p \in Requests |-> "get"]
        /\ call = requests
        /\ ret = [p \in Requests |-> Response(0, "", <<>>)]
        /\ seen = <<>>
        /\ connections = 0
        /\ history = NoHistory

\* request p ends with the response r
Respond(p, r) == ret' = [ret EXCEPT ![p] = r] /\ pc' = [pc EXCEPT ![p] = "done"]

\* edit_experiment: experiment = get_experiment(experiment_id)
EditGet(p) ==
    /\ pc[p] = "get"
    /\ call[p].op = "edit_experiment"
    /\ IF ~LoggedIn THEN Respond(p, ToLogin)
       ELSE IF get_experiment(experiments, call[p].id) = {}
       THEN Respond(p, Response(302, "dashboard", <<"Experiment not found.">>))
       ELSE pc' = [pc EXCEPT ![p] = "validate"] /\ UNCHANGED ret
    /\ UNCHANGED <<experiments, autoinc, users, session, now, call, seen,
                   connections, history>>

\* edit_experiment: validation = validate_experiment_data(request.form)
EditValidate(p) ==
    /\ pc[p] = "validate"
    /\ LET validation == validate_experiment_data(call[p].form)
       IN  IF validation.raised THEN Respond(p, Response(500, "", <<>>))
           ELSE IF HasErrors(validation) THEN Respond(p, Response(200, "", validation.errors))
           ELSE pc' = [pc EXCEPT ![p] = "update"] /\ UNCHANGED ret
    /\ UNCHANGED <<experiments, autoinc, users, session, now, call, seen,
                   connections, history>>

\* edit_experiment: update_experiment(experiment_id, validation['data'])
EditUpdate(p) ==
    /\ pc[p] = "update"
    /\ LET updated == update_experiment(experiments, call[p].id,
                                        validate_experiment_data(call[p].form).data, now)
       IN  /\ experiments' = updated.rows
           /\ Respond(p, IF updated.ok
                         THEN Response(302, "view_experiment", <<>>)
                         ELSE Response(200, "", <<"Failed to update experiment.">>))
    /\ history' = [history EXCEPT !.order = Append(@, p)]
    /\ UNCHANGED <<autoinc, users, session, now, call, seen, connections>>

\* delete_experiment: experiment = get_experiment(experiment_id)
DeleteGet(p) ==
    /\ pc[p] = "get"
    /\ call[p].op = "delete_experiment"
    /\ IF ~LoggedIn THEN Respond(p, ToLogin)
       ELSE IF get_experiment(experiments, call[p].id) = {}
       THEN Respond(p, Response(404, "", <<"Experiment not found.">>))
       ELSE pc' = [pc EXCEPT ![p] = "delete"] /\ UNCHANGED ret
    /\ UNCHANGED <<experiments, autoinc, users, session, now, call, seen,
                   connections, history>>

\* delete_experiment: delete_experiment(experiment_id)
DeleteDelete(p) ==
    /\ pc[p] = "delete"
    /\ LET deleted == delete_experiment(experiments, call[p].id)
       IN  /\ experiments' = deleted.rows
           /\ Respond(p, IF deleted.ok
                         THEN Response(200, "", <<>>)
                         ELSE Response(500, "", <<"Failed to delete experiment.">>))
    /\ history' = [history EXCEPT !.order = Append(@, p)]
    /\ UNCHANGED <<autoinc, users, session, now, call, seen, connections>>

\* the next step of request p
Serve(p) ==
    \/ EditGet(p)
    \/ EditValidate(p)
    \/ EditUpdate(p)
    \/ DeleteGet(p)
    \/ DeleteDelete(p)

NextConcurrent == \E p \in Requests : Serve(p)

SpecConcurrent == InitConcurrent /\ [][NextConcurrent]_vars

AllDone == \A p \in Requests : pc[p] = "done"

\* both requests are of the kind op, for the same id, which had a row at the
\* start (the table starts with the rows 1..autoinc)
SameRow(op) ==
    /\ \A p \in Requests : call[p].op = op
    /\ call[1].id = call[2].id
    /\ call[1].id <= autoinc

ValidForm(p) ==
    /\ ~validate_experiment_data(call[p].form).raised
    /\ validate_experiment_data(call[p].form).errors = <<>>

\* C23: two edits of the same existing row with valid forms, interleaved in any
\* order: neither waits for the other, both updates succeed, and at the end the
\* row holds the six fields of the update that ran last.
C23_LastWriterWins ==
    (SameRow("edit_experiment") /\ \A p \in Requests : ValidForm(p)) =>
        /\ \A p \in Requests : pc[p] # "done" => ENABLED Serve(p)
        /\ \A p \in Requests :
                pc[p] = "done" => ret[p] = Response(302, "view_experiment", <<>>)
        /\ history.order # <<>> =>
                LET last == history.order[Len(history.order)]
                IN  \E r \in experiments :
                        /\ get_experiment(experiments, call[1].id) = {r}
                        /\ HoldsData(r, validate_experiment_data(call[last].form).data)

\* two edits with different data for the same row are done; request 2 wrote
\* first, and the row holds the data of request 1
C23_Witness ==
    /\ AllDone
    /\ SameRow("edit_experiment")
    /\ \A p \in Requests : ValidForm(p)
    /\ call[1].form # call[2].form
    /\ history.order = <<2, 1>>
    /\ HoldsData(RowOf(experiments, call[1].id), validate_experiment_data(call[1].form).data)

Succeeded(p) == ret[p] = Response(200, "", <<>>)

Refused(p) ==
    ret[p] \in {Response(404, "", <<"Experiment not found.">>),
                Response(500, "", <<"Failed to delete experiment.">>)}

\* C27: two deletes of the same existing row, interleaved in any order: one
\* answers with success, the other with 404 'Experiment not found.' or 500
\* 'Failed to delete experiment.', the row is gone and the other rows are as
\* they were.
C27_OneDeleteSucceeds ==
    (AllDone /\ SameRow("delete_experiment")) =>
        /\ \E p \in Requests : Succeeded(p) /\ \A q \in Requests \ {p} : Refused(q)
        /\ experiments = {r \in EnteredTable(autoinc) : r.id # call[1].id}

\* both deletes found the row before either removed it: the second one failed
\* with 500, and another row is still there
C27_Witness ==
    /\ AllDone
    /\ SameRow("delete_experiment")
    /\ \E p \in Requests : ret[p] = Response(500, "", <<"Failed to delete experiment.">>)
    /\ experiments # {}

====
